---------------------------- MODULE Spec2Model ----------------------------
(***************************************************************************)
(* Veil: a self-adapting web application firewall.                         *)
(*                                                                         *)
(* Part A holds the values the program works with, the local pattern       *)
(* matcher (services/regex_classifier.py) and the two external engines     *)
(* (services/crusoe_classifier.py, claude_classifier.py).                  *)
(*                                                                         *)
(* Part B applies functions of the agents (agents/peek.py, poke.py,        *)
(* patch.py) and the two engine calls to their inputs, one function to one *)
(* input.  Part C is the rate limiter of backend/main.py.  Part D is the   *)
(* attack execution of the Red-Team (poke.py: _execute_attacks,            *)
(* _attack_single, _analyse_results).  Part E is the server process of     *)
(* backend/main.py: the background driver (agent_loop), the trigger        *)
(* endpoints and /v1/classify.                                             *)
(*                                                                         *)
(* Conventions                                                             *)
(*   - a confidence is written Dec(d) for d hundredths (0.6 is Dec(60));   *)
(*   - a key that is absent from a Python dict is the value Missing (for   *)
(*     strings) or NoConf (for the confidence), and every dict.get(k, d)   *)
(*     of the source is an explicit Get... operator with the default d;    *)
(*   - a call that ends with an exception has the result CallRaised(exc).  *)
(*                                                                         *)
(* The database connection.  get_db (db/database.py:8-11) is a coroutine   *)
(* function that returns the connection.  init_db awaits it                *)
(* (database.py:15).  Every other caller writes                            *)
(* "async with get_db() as db": the call get_db() gives a coroutine        *)
(* object, which is no asynchronous context manager, and the statement     *)
(* raises TypeError before its block is entered.  A function of the        *)
(* source is modelled up to the first such statement it reaches outside a  *)
(* try block; behind it no statement of the function is executed.          *)
(***************************************************************************)
EXTENDS Integers, Sequences, FiniteSets, TLC

VARIABLES
    \* ---- the configuration of the process
    crusoe_key,       \* os.getenv("CRUSOE_API_KEY", "")
    aws_creds,        \* bool(AWS_ACCESS_KEY_ID or AWS_PROFILE)
    \* ---- the requests to /v1/classify
    c_calls,          \* number of requests so far
    c_hits,           \* the last request, as the local pattern matcher sees it
    c_status,         \* how the last request was answered ("none": no request yet)
    verdict,          \* the dict classify_request returned to it (NoVerdict: none)
    \* ---- the background driver and the trigger endpoints (main.py)
    agent_running,    \* global agent_running
    cycle_counter,    \* global _cycle_counter
    last_cycle_hint,  \* global _last_cycle_hint
    agent_log,        \* table agent_log, in insertion (id) order
    pc,               \* position of the background driver; answer to the last trigger request
    ctx,              \* cycle_ctx of each of the two
    cycle_event,      \* the last event each of the two handed to ws_manager.broadcast
    manual_runs,      \* number of requests to the trigger endpoints so far
    \* ---- a function of the program applied to one input
    f_name,           \* which function
    f_in,             \* its argument
    f_out,            \* <<>> before it is applied, then <<its result>> or CallRaised(exc)
    \* ---- the rate limiter (main.py, RateLimiter)
    rl_now,           \* time.monotonic(), in seconds
    rl_hits,          \* RateLimiter._hits: key -> list of times
    rl_resp,          \* <<>>, then <<what check_rate_limit did with the last request>>
    rl_log,           \* the requests so far and whether each was let through
    \* ---- the attack execution of the Red-Team (poke.py)
    threats,          \* the rows of the table threats of the techniques attacked
    t_pc,             \* position of _execute_attacks and _analyse_results
    t_loc             \* their local variables

\* the requests to /v1/classify
call_vars == <<c_calls, c_hits, c_status, verdict>>

\* the state of the driver and of the trigger endpoints
cycle_vars == <<agent_running, cycle_counter, last_cycle_hint, agent_log, pc, ctx,
                cycle_event, manual_runs>>

\* the state of a function's application
fun_vars == <<f_name, f_in, f_out>>

\* the rate limiter's state
rate_vars == <<rl_now, rl_hits, rl_resp, rl_log>>

\* the attack execution
tech_vars == <<threats, t_pc, t_loc>>

\* the server process without its rate limiter
core_vars == <<crusoe_key, aws_creds, call_vars, cycle_vars>>

vars == <<core_vars, fun_vars, rate_vars, tech_vars>>

----------------------------------------------------------------------------
(* Bounds of the model *)

\* largest number of matching patterns considered per rule group
MaxHits == 2
\* largest number of rule groups that match the same request
MaxMatched == 1
\* number of cycle contexts made
MaxCycles == 3
\* number of requests to the trigger endpoints
MaxManual == 2
\* number of requests to /v1/classify
MaxCalls == 2
\* largest number of targets given to _execute_attacks
MaxTargets == 4

----------------------------------------------------------------------------
(* Values *)

Missing == "MISSING"
NoConf == -1

\* What a confidence read from an engine's JSON object can be besides a
\* number or an absent key: null, a string that reads as a number ("0.9"),
\* and a value sqlite3 cannot bind (a list or an object).
NullConf == NoConf - 1
TextConf == NoConf - 2
ListConf == NoConf - 3

\* A confidence that is a number is a double.  The doubles the program meets
\* lie within one unit in the last place of a two-decimal number d/100; the
\* double that lies e units in the last place above the double nearest to
\* d/100 is kept as 10 * d + e, so that the order and the equality of the
\* doubles are those of the integers.  Dec(d) is the double nearest to d/100,
\* the value of the literal.
Dec(d) == 10 * d

IsNumber(conf) == conf >= 0

\* the number a string confidence reads as ("0.9")
TextConfValue == Dec(90)

Min(a, b) == IF a <= b THEN a ELSE b

\* the call ended with the exception exc instead of a value
CallRaised(exc) == <<"raised", exc>>

\* database.py:8-11 and every "async with get_db() as db" of the source:
\* get_db() gives a coroutine object, and entering it raises TypeError
\* ('coroutine' object does not support the asynchronous context manager
\* protocol)
EnterGetDb == CallRaised("TypeError")

\* str(e) of that exception
GetDbErrorText == "'coroutine' object does not support the asynchronous context manager protocol"

\* main.py:535  "confidence > 0.6"
BLOCK_THRESHOLD == 60
\* the literal 0.5 of every `.get("confidence", 0.5)` and of every degraded verdict
DEFAULT_CONFIDENCE == 50
\* regex_classifier.py:139  no match yields SAFE at 0.85
SAFE_CONFIDENCE == 85
\* regex_classifier.py:131  + 0.03 per extra hit, capped at 0.99
HIT_BONUS == 3
CONFIDENCE_CAP == 99

\* regex_classifier.py:90-100: (attack_type, number of patterns, base confidence)
RULES == <<
    [attack_type |-> "sqli",              patterns |-> 7, base |-> 92],
    [attack_type |-> "xss",               patterns |-> 9, base |-> 90],
    [attack_type |-> "path_traversal",    patterns |-> 4, base |-> 88],
    [attack_type |-> "command_injection", patterns |-> 7, base |-> 91],
    [attack_type |-> "ssrf",              patterns |-> 5, base |-> 85],
    [attack_type |-> "xxe",               patterns |-> 3, base |-> 89],
    [attack_type |-> "header_injection",  patterns |-> 2, base |-> 82],
    [attack_type |-> "auth_bypass",       patterns |-> 3, base |-> 87],
    [attack_type |-> "encoding_evasion",  patterns |-> 3, base |-> 80] >>

RuleIdx == 1..Len(RULES)

\* A request as Stage 0 sees it: for every rule group, how many of its
\* patterns find a match in "<message> <twice url-decoded message>".
HitVectors ==
    UNION { { [i \in RuleIdx |-> IF i \in S THEN f[i] ELSE 0] :
                f \in { g \in [S -> 1..MaxHits] :
                          \A i \in S : g[i] <= RULES[i].patterns } } :
            S \in { T \in SUBSET RuleIdx : Cardinality(T) <= MaxMatched } }

\* A dict as the classifiers return it.
Result(cls, conf, atk, who, why) ==
    [raised |-> FALSE, classification |-> cls, confidence |-> conf,
     attack_type |-> atk, classifier |-> who, reason |-> why]

\* An exception leaving a classifier.
Raised(who, why) ==
    [raised |-> TRUE, classification |-> Missing, confidence |-> NoConf,
     attack_type |-> Missing, classifier |-> who, reason |-> why]

NoResult == Result(Missing, NoConf, Missing, Missing, Missing)

\* dict.get(key, default)
GetClass(r, d) == IF r.classification = Missing THEN d ELSE r.classification
GetConf(r, d) == IF r.confidence = NoConf THEN d ELSE r.confidence
GetAttack(r, d) == IF r.attack_type = Missing THEN d ELSE r.attack_type
GetClassifier(r, d) == IF r.classifier = Missing THEN d ELSE r.classifier
GetReason(r, d) == IF r.reason = Missing THEN d ELSE r.reason

----------------------------------------------------------------------------
(* Stage 0: regex_classifier.classify *)

\* regex_classifier.py:131: base_confidence + (hit_count - 1) * 0.03 is
\* computed in binary floating point.  By how many units in the last place
\* the sum differs from the double nearest to the two-decimal sum:
\* 0.92 + 0.03 = 0.9500000000000001, 0.91 + 0.03 = 0.9400000000000001,
\* 0.8 + 0.03 = 0.8300000000000001, 0.8 + 0.06 = 0.8600000000000001,
\* 0.85 + 0.06 = 0.9099999999999999, 0.87 + 0.06 = 0.9299999999999999;
\* every other sum not above the cap is the nearest double itself.
RoundingError(base, hits) ==
    CASE <<base, hits>> \in {<<92, 2>>, <<91, 2>>, <<80, 2>>, <<80, 3>>} -> 1
      [] <<base, hits>> \in {<<85, 3>>, <<87, 3>>} -> 0 - 1
      [] OTHER -> 0

\* regex_classifier.py:131
MatchConfidence(i, hits) ==
    Min(Dec(RULES[i].base + (hits - 1) * HIT_BONUS) + RoundingError(RULES[i].base, hits),
        Dec(CONFIDENCE_CAP))

\* matches.sort(key=lambda x: (-x[1], -x[2])): i sorts before j.  The sort
\* is stable, so equal keys keep the order of RULES.
SortsBefore(h, i, j) ==
    LET ci == MatchConfidence(i, h[i])
        cj == MatchConfidence(j, h[j])
    IN  \/ ci > cj
        \/ ci = cj /\ h[i] > h[j]
        \/ ci = cj /\ h[i] = h[j] /\ i < j

regex_classify(h) ==
    LET matched == {i \in RuleIdx : h[i] > 0}
    IN  IF matched = {}
        THEN Result("SAFE", Dec(SAFE_CONFIDENCE), "none", "regex", "no_pattern")
        ELSE LET best == CHOOSE i \in matched :
                            \A j \in matched \ {i} : SortsBefore(h, i, j)
             IN  Result("MALICIOUS", MatchConfidence(best, h[best]),
                        RULES[best].attack_type, "regex", "detected")

----------------------------------------------------------------------------
(* The external engines *)

Classes == {"SAFE", "SUSPICIOUS", "MALICIOUS"}

\* What an engine may put in the JSON object it answers with.
EngineClasses == Classes \cup {"OTHER", Missing}
EngineConfidences == {Dec(40), Dec(60), Dec(61), NoConf, NullConf, TextConf, ListConf}
\* an attack_type that sqlite3 cannot bind (a JSON list)
ListAttack == "LIST"
EngineAttacks == {"rce", Missing, ListAttack}

\* Outcomes of the fast engine's HTTP call (crusoe_classifier.py:16-60).
CrusoeFailureKinds ==
    {"network_error", "http_error", "bad_envelope", "embedded_garbage",
     "no_json", "non_object"}
\* Outcomes of the deep engine's call: the client cannot be constructed
\* (claude_classifier.py:15), and those of the API call (17-55).
ClaudeFailureKinds ==
    {"client_error", "api_error", "empty_content", "embedded_garbage", "no_json",
     "non_object"}
VerdictKinds == {"json", "embedded_json"}

Response(k, cls, conf, atk) ==
    [kind |-> k, classification |-> cls, confidence |-> conf, attack_type |-> atk]

\* The responses tried: every failure, every verdict as a bare JSON object
\* (with or without an attack_type), and confident verdicts embedded in prose.
EngineResponses(failures) ==
    { Response(k, Missing, NoConf, Missing) : k \in failures }
    \cup { Response("json", c, f, a) :
             c \in EngineClasses, f \in EngineConfidences, a \in EngineAttacks }
    \cup { Response("embedded_json", c, Dec(61), Missing) : c \in EngineClasses }

\* crusoe_classifier.classify: no try/except around the HTTP call, the
\* envelope decoding, or the second json.loads.
crusoe_classify(resp) ==
    CASE resp.kind = "network_error" -> Raised("crusoe", "httpx_error")
      [] resp.kind = "http_error" ->
            Result("SUSPICIOUS", Dec(DEFAULT_CONFIDENCE), Missing, "crusoe", "api_error")
      [] resp.kind = "bad_envelope" -> Raised("crusoe", "envelope")
      [] resp.kind = "embedded_garbage" -> Raised("crusoe", "json_decode")
      [] resp.kind = "non_object" -> Raised("crusoe", "type_error")
      [] resp.kind = "no_json" ->
            Result("SUSPICIOUS", Dec(DEFAULT_CONFIDENCE), Missing, "crusoe", "parse_failed")
      [] OTHER ->
            Result(resp.classification, resp.confidence, resp.attack_type,
                   "crusoe", "engine")

\* claude_classifier.classify: the client is constructed before the try
\* (line 15); everything after it is inside try/except Exception.
claude_classify(resp) ==
    CASE resp.kind = "client_error" -> Raised("claude", "client_error")
      [] resp.kind \in {"api_error", "empty_content", "embedded_garbage", "non_object"} ->
            Result("SUSPICIOUS", Dec(DEFAULT_CONFIDENCE), "none", "claude", "api_error")
      [] resp.kind = "no_json" ->
            Result("SUSPICIOUS", Dec(DEFAULT_CONFIDENCE), "none", "claude", "parse_failed")
      [] OTHER ->
            Result(resp.classification, resp.confidence, resp.attack_type,
                   "claude", "engine")

----------------------------------------------------------------------------
(* The Rule Store (table rules) *)

RuleRow(v, fast, deep, by) ==
    [version |-> v, crusoe_prompt |-> fast, claude_prompt |-> deep, updated_by |-> by]

\* database.py:62-75: the row init_db inserts into an empty table
SeedRule == RuleRow(1, "INITIAL_CRUSOE_PROMPT", "INITIAL_CLAUDE_PROMPT", "system")

MaxVersion(rows) ==
    IF rows = <<>> THEN 0
    ELSE CHOOSE v \in {rows[i].version : i \in 1..Len(rows)} :
            \A i \in 1..Len(rows) : rows[i].version <= v

\* SELECT ... FROM rules ORDER BY version DESC LIMIT 1: the row the query
\* returns, as a set with one element (none on an empty table).  Among rows
\* of equal version sqlite returns the one inserted first.
CurrentRules(rows) ==
    { rows[i] : i \in {j \in 1..Len(rows) :
                          /\ rows[j].version = MaxVersion(rows)
                          /\ \A k \in 1..(j - 1) : rows[k].version # MaxVersion(rows)} }

----------------------------------------------------------------------------
(* The values of backend/main.py *)

\* main.py:507-509
has_crusoe(key) == key # "" /\ key # "placeholder"
has_claude(creds) == creds

\* main.py:505, 535-536
Blocked(cls, conf) == cls = "MALICIOUS" /\ conf > Dec(BLOCK_THRESHOLD)

Verdict(cls, conf, blk, atk, who, why, ver) ==
    [classification |-> cls, confidence |-> conf, blocked |-> blk,
     attack_type |-> atk, classifier |-> who, reason |-> why, rules_version |-> ver]

\* the dict has no key rules_version
NoVersion == 0 - 1

NoVerdict == Verdict(Missing, NoConf, FALSE, Missing, Missing, Missing, NoVersion)

Event(type, agent, status) == [type |-> type, agent |-> agent, status |-> status]
NoEvent == Event("none", "none", "none")

\* the background driver task (main.py:340) and the requests to the trigger
\* endpoints (main.py:901, 913, 925)
Procs == {"driver", "manual"}

\* main.py:188-206: the hint dict; NoHint is None
Hint(mode, ids) ==
    [dominant_failure_mode |-> mode,
     still_bypassing_count |-> Cardinality(ids),
     still_bypassing_ids |-> ids]

NoHint == Hint(Missing, {})

\* main.py:169-185: the dict _make_cycle_ctx returns, and the key
\* _last_still_bypassing that _run_closed_loop adds (main.py:278)
CycleCtx(id, hint) ==
    [cycle_id |-> id, discovered_count |-> 0, strategies_used |-> <<>>,
     tested_count |-> 0, blocked_count |-> 0, bypasses |-> <<>>,
     patch_rounds |-> <<>>, hint |-> hint, last_still |-> <<>>]

NoCtx == CycleCtx(0, NoHint)

\* patch.py:356, 344 and 424: what patch.run returns
AdaptResult(patched, verified) == [patched |-> patched, verified |-> verified]

\* os.getenv("CRUSOE_API_KEY", ""): unset, the placeholder of main.py:509, a key
CrusoeKeys == {"", "placeholder", "sk-live"}

\* database.py:25: NULL in tested_at
NoTime == 0

\* poke.py:88-92 and database.py:17-28: a technique as _attack_single reads
\* it and as its row stands in the table threats (technique_name,
\* raw_payload and category are passed on as they are and left out)
Threat(id, severity, tested, blocked) ==
    [id |-> id, severity |-> severity, tested_at |-> tested, blocked |-> blocked]

\* the locals of _execute_attacks and of poke.run after it: targets, one
\* attack call and one result slot per target, and the bypasses of
\* _analyse_results
ExecLocals(targets, tasks, results, bypasses) ==
    [targets |-> targets, tasks |-> tasks, results |-> results, bypasses |-> bypasses]

NoExecLocals == ExecLocals(<<>>, <<>>, <<>>, <<>>)

\* a request without a match of any pattern
NoHits == [i \in RuleIdx |-> 0]

\* no function is being applied
FunIdle == f_name = "none" /\ f_in = Missing /\ f_out = <<>>

\* main.py:96-97: RateLimiter.__init__
RateIdle == rl_now = 0 /\ rl_hits = <<>> /\ rl_resp = <<>> /\ rl_log = <<>>

\* no attack is being executed
TechIdle == threats = <<>> /\ t_pc = "idle" /\ t_loc = NoExecLocals

\* main.py:163-165 and database.py:14-78: the server process before its
\* driver task has run: no engine configured, no request made
CoreIdle ==
    /\ crusoe_key = ""
    /\ aws_creds = FALSE
    /\ c_calls = 0
    /\ c_hits = NoHits
    /\ c_status = "none"
    /\ verdict = NoVerdict
    /\ agent_running = FALSE
    /\ cycle_counter = 0
    /\ last_cycle_hint = NoHint
    /\ agent_log = <<>>
    /\ pc = [p \in Procs |-> IF p = "driver" THEN "boot" ELSE "idle"]
    /\ ctx = [p \in Procs |-> NoCtx]
    /\ cycle_event = [p \in Procs |-> NoEvent]
    /\ manual_runs = 0

\* main.py:188-206: _build_cycle_hint
BuildCycleHint(c) ==
    IF c.patch_rounds = <<>>
    THEN NoHint
    ELSE [dominant_failure_mode |-> c.patch_rounds[Len(c.patch_rounds)].dominant_failure,
          still_bypassing_count |-> c.patch_rounds[Len(c.patch_rounds)].still_bypassing,
          still_bypassing_ids |-> {c.last_still[i].threat_id : i \in 1..Len(c.last_still)}]

\* ===========================================================================
\* Part B: functions of the agents and the engine calls, each applied to one
\* input
\* ===========================================================================

\* ---------------------------------------------------------------------------
\* peek.py: _normalise_payload.  A payload is a sequence of characters; a
\* character is a one-character string, and "<NUL>", "<STX>", "<ENQ>" stand
\* for the control characters U+0000, U+0002, U+0005.
\* ---------------------------------------------------------------------------

\* largest number of tokens a payload is built from
MaxTokens == 2

\* largest number of percent-encoding layers around one character
MaxLayers == 4

\* peek.py:212: range(3), the number of decoding passes
MAX_DECODE_PASSES == 3

\* the hexadecimal digits used in the payloads
HexDigits == {"0", "2", "5"}

\* urllib.parse._hextobyte for the pairs of HexDigits: the character a
\* percent-escape stands for
HexToChar(h1, h2) ==
    CASE h1 = "0" /\ h2 = "0" -> "<NUL>"
      [] h1 = "0" /\ h2 = "2" -> "<STX>"
      [] h1 = "0" /\ h2 = "5" -> "<ENQ>"
      [] h1 = "2" /\ h2 = "0" -> " "
      [] h1 = "2" /\ h2 = "2" -> "\""
      [] h1 = "2" /\ h2 = "5" -> "%"
      [] h1 = "5" /\ h2 = "0" -> "P"
      [] h1 = "5" /\ h2 = "2" -> "R"
      [] h1 = "5" /\ h2 = "5" -> "U"

\* str.lower on one character
LowerChar(c) ==
    CASE c = "X" -> "x"
      [] c = "P" -> "p"
      [] c = "R" -> "r"
      [] c = "U" -> "u"
      [] OTHER -> c

\* what str.strip and the pattern \s take for whitespace
IsSpace(c) == c = " "

\* peek.py:211: payload.lower()
lower(p) == [i \in 1..Len(p) |-> LowerChar(p[i])]

\* peek.py:211: .strip(): whitespace is removed at both ends
strip(p) ==
    LET keep == {i \in 1..Len(p) : ~IsSpace(p[i])}
    IN  IF keep = {} THEN <<>>
        ELSE LET first == CHOOSE i \in keep : \A j \in keep : i <= j
                 last == CHOOSE i \in keep : \A j \in keep : j <= i
             IN  SubSeq(p, first, last)

\* peek.py:214: urllib.parse.unquote: one pass from left to right; "%" and
\* the two hexadecimal digits after it become the character they encode,
\* anything else is kept
RECURSIVE unquote(_)
unquote(p) ==
    IF p = <<>> THEN <<>>
    ELSE IF p[1] = "%" /\ Len(p) >= 3 /\ p[2] \in HexDigits /\ p[3] \in HexDigits
         THEN <<HexToChar(p[2], p[3])>> \o unquote(SubSeq(p, 4, Len(p)))
         ELSE <<p[1]>> \o unquote(Tail(p))

\* peek.py:213-217: at most n decoding passes, stopping at the first pass
\* that changes nothing
RECURSIVE DecodeLoop(_, _)
DecodeLoop(p, n) ==
    IF n = 0 THEN p
    ELSE LET decoded == unquote(p)
         IN  IF decoded = p THEN p ELSE DecodeLoop(decoded, n - 1)

\* peek.py:219: re.sub(r"\s+", " ", p): every run of whitespace becomes one
\* space
RECURSIVE CollapseSpace(_)
CollapseSpace(p) ==
    IF p = <<>> THEN <<>>
    ELSE IF IsSpace(p[1])
         THEN LET rest == {i \in 1..Len(p) : ~IsSpace(p[i])}
              IN  IF rest = {} THEN <<" ">>
                  ELSE LET nxt == CHOOSE i \in rest : \A j \in rest : i <= j
                       IN  <<" ">> \o CollapseSpace(SubSeq(p, nxt, Len(p)))
         ELSE <<p[1]>> \o CollapseSpace(Tail(p))

\* peek.py:209-220: _normalise_payload
normalise_payload(payload) ==
    CollapseSpace(DecodeLoop(strip(lower(payload)), MAX_DECODE_PASSES))

\* a character under k layers of percent-encoding: "%" is written %25
RECURSIVE Encoded(_, _)
Encoded(k, c) ==
    IF k = 0 THEN <<c>>
    ELSE LET inner == Encoded(k - 1, c)
         IN  IF k = 1
             THEN CASE c = " " -> <<"%", "2", "0">>
                    [] c = "R" -> <<"%", "5", "2">>
                    [] c = "%" -> <<"%", "2", "5">>
             ELSE <<"%", "2", "5">> \o Tail(inner)

\* the pieces payloads are built from: plain characters and encoded ones
Tokens ==
    {<<"x">>, <<"X">>, <<" ">>}
        \cup {Encoded(k, c) : k \in 1..MaxLayers, c \in {" ", "R", "%"}}

RECURSIVE Flatten(_)
Flatten(ts) == IF ts = <<>> THEN <<>> ELSE Head(ts) \o Flatten(Tail(ts))

\* peek.py:209: the payloads _normalise_payload is applied to
Payloads ==
    {Flatten(ts) : ts \in UNION {[1..n -> Tokens] : n \in 0..MaxTokens}}

\* ---------------------------------------------------------------------------
\* poke.py: _compute_bypass_score.  A score is a double within one unit in
\* the last place of a two-decimal number s/100: the double that lies k
\* units in the last place above the double nearest to s/100 is kept as
\* 100 * s + k, so that the order and the equality of the doubles are those
\* of the integers.
\* ---------------------------------------------------------------------------

Severities == {"critical", "high", "medium", "low"}

\* poke.py:18 and 181: SEVERITY_WEIGHT.get(severity, 2)
SEVERITY_WEIGHT(severity) ==
    CASE severity = "critical" -> 4
      [] severity = "high" -> 3
      [] severity = "medium" -> 2
      [] severity = "low" -> 1
      [] OTHER -> 2

\* poke.py:181: result.get("severity", "medium")
GetSeverity(result) ==
    IF result.severity = Missing THEN "medium" ELSE result.severity

\* poke.py:182: the confidence of a result that carries none, 0.5
SCORE_DEFAULT_CONFIDENCE == 50

\* poke.py:182: result.get("confidence", 0.5)
GetScoreConfidence(result) ==
    IF result.confidence = NoConf THEN Dec(SCORE_DEFAULT_CONFIDENCE) ELSE result.confidence

\* poke.py:184: "1.0 - confidence" raises TypeError when the confidence is
\* null or a string
ScoreRaises(result) == result.confidence # NoConf /\ ~IsNumber(result.confidence)

\* poke.py:184-185: the two subtractions and the product are rounded: by how
\* many units in the last place severity_score * (1.0 + (1.0 - confidence))
\* lies above the double nearest to the exact value, for the weights 1 to 4
\* and the two-decimal confidences from 0.00 to 1.00.  The products by 1, 2
\* and 4 are exact, the product by 3 is rounded once more.
ScoreUlps(weight, conf) ==
    CASE weight \in {1, 2, 4}
           /\ conf \in {Dec(d) : d \in {9, 11, 36, 57, 59, 61, 82, 84, 86}} -> 1
      [] weight \in {1, 2, 4}
           /\ conf \in {Dec(d) : d \in {14, 16, 39, 64, 66, 68, 89, 91, 93}} -> 0 - 1
      [] weight = 3
           /\ conf \in {Dec(d) : d \in {15, 23, 40, 41, 48, 57, 65, 70, 74, 82,
                                              84, 86, 88, 90, 95, 99}} -> 1
      [] weight = 3
           /\ conf \in {Dec(d) : d \in {2, 10, 27, 34, 35, 52, 60, 68, 76, 80,
                                              85, 87, 89, 91, 93}} -> 0 - 1
      [] OTHER -> 0

\* the mutant: the confidence is not inverted
compute_bypass_score_direct(result) ==
    LET weight == SEVERITY_WEIGHT(GetSeverity(result))
        conf == GetScoreConfidence(result)
    IN  10 * weight * (Dec(100) + conf)

\* poke.py:175-185: _compute_bypass_score
compute_bypass_score(result) ==
    LET weight == SEVERITY_WEIGHT(GetSeverity(result))
        conf == GetScoreConfidence(result)
    IN  10 * weight * (Dec(100) + (Dec(100) - conf)) + ScoreUlps(weight, conf)

\* poke.py:175: the bypass records that are scored: every two-decimal
\* confidence, none, null and a string
ScoreInputs ==
    [severity : Severities \cup {"info", Missing},
     confidence : {Dec(d) : d \in 0..100} \cup {NoConf, NullConf, TextConf}]

\* "error": None of a result with a verdict (poke.py:129)
NoError == "None"

\* the truth value Python gives r.get("error"): None and "" are false
Truthy(text) == text # NoError /\ text # ""

\* poke.py:216: bypasses.sort(key=bypass_score, reverse=True); the sort is
\* stable
RECURSIVE SortByScore(_)
SortByScore(bypasses) ==
    IF bypasses = <<>> THEN <<>>
    ELSE LET idx == CHOOSE i \in 1..Len(bypasses) :
                        /\ \A j \in 1..Len(bypasses) :
                              compute_bypass_score(bypasses[j])
                                  <= compute_bypass_score(bypasses[i])
                        /\ \A j \in 1..(i - 1) :
                              compute_bypass_score(bypasses[j])
                                  < compute_bypass_score(bypasses[i])
         IN  <<bypasses[idx]>>
                 \o SortByScore(SubSeq(bypasses, 1, idx - 1)
                                    \o SubSeq(bypasses, idx + 1, Len(bypasses)))

\* poke.py:183-184, 211: scoring a bypass raises TypeError when its
\* confidence is not a number
AnalyseRaises(results) ==
    \E i \in 1..Len(results) :
        ~Truthy(results[i].error) /\ ~results[i].blocked /\ ScoreRaises(results[i])

\* poke.py:188-218: _analyse_results: a result is skipped "if r.get('error')",
\* counted as blocked "if r['blocked']", and is a bypass otherwise; the
\* bypasses are returned most dangerous first
analyse_results(results) ==
    SortByScore(SelectSeq(results, LAMBDA r : ~Truthy(r.error) /\ ~r.blocked))

\* ---------------------------------------------------------------------------
\* patch.py: _classify_failure.  A payload is a sequence of fragments.
\* ---------------------------------------------------------------------------

\* fragments of payloads: with an obfuscation marker, with a marker of a
\* delivery context, and plain ones
Fragments == {"%2527", "%C0", "/**/", "GraphQL", "upgrade:", "id=1", "WHOAMI"}

\* patch.py:39: .lower() on one fragment
LowerFragment(f) ==
    CASE f = "%C0" -> "%c0"
      [] f = "GraphQL" -> "graphql"
      [] f = "WHOAMI" -> "whoami"
      [] OTHER -> f

\* patch.py:46-50: whether one of encoding_signals occurs in the fragment
HasEncodingSignal(f) == f \in {"%2527", "%c0", "/**/"}

\* patch.py:55-59: whether one of context_signals occurs in the fragment
HasContextSignal(f) == f \in {"graphql", "upgrade:"}

\* patch.py:36: resp.get("classification", "SAFE")
GetFailureClassification(bypass) ==
    IF bypass.classification = Missing THEN "SAFE" ELSE bypass.classification

\* patch.py:37: resp.get("confidence", 0.0)
GetFailureConfidence(bypass) ==
    IF bypass.confidence = NoConf THEN Dec(0) ELSE bypass.confidence

\* patch.py:65-67: the categories of semantic_miss
SemanticCategories == {"sqli", "xss", "command_injection", "rce", "ssrf"}

\* patch.py:23-29: FAILURE_MODES
FAILURE_MODES ==
    {"pattern_gap", "encoding_evasion", "context_blind_spot", "semantic_miss",
     "confidence_underflow"}

\* patch.py:42: a MALICIOUS verdict at or below 0.6 is an underflow
UNDERFLOW_LIMIT == 60

\* patch.py:42, 51, 60-62, 65-68: the four tests, each taken alone
Underflow(bypass) ==
    GetFailureClassification(bypass) = "MALICIOUS"
        /\ GetFailureConfidence(bypass) <= Dec(UNDERFLOW_LIMIT)

\* patch.py:42: "confidence <= 0.6" is evaluated only when the classification
\* is MALICIOUS, and raises TypeError when the confidence is null or a string
ClassifyRaises(bypass) ==
    GetFailureClassification(bypass) = "MALICIOUS"
        /\ ~IsNumber(GetFailureConfidence(bypass))

EncodingEvasion(bypass) ==
    \E i \in 1..Len(bypass.payload) : HasEncodingSignal(LowerFragment(bypass.payload[i]))

ContextBlindSpot(bypass) ==
    /\ \E i \in 1..Len(bypass.payload) : HasContextSignal(LowerFragment(bypass.payload[i]))
    /\ GetFailureClassification(bypass) = "SAFE"

SemanticMiss(bypass) ==
    GetFailureClassification(bypass) = "SAFE" /\ bypass.category \in SemanticCategories

\* the mutant: the obfuscation markers are looked at first
classify_failure_encoding_first(bypass) ==
    IF EncodingEvasion(bypass) THEN "encoding_evasion"
    ELSE IF Underflow(bypass) THEN "confidence_underflow"
    ELSE IF ContextBlindSpot(bypass) THEN "context_blind_spot"
    ELSE IF SemanticMiss(bypass) THEN "semantic_miss"
    ELSE "pattern_gap"

\* patch.py:32-71: _classify_failure
classify_failure(bypass) ==
    IF Underflow(bypass) THEN "confidence_underflow"
    ELSE IF EncodingEvasion(bypass) THEN "encoding_evasion"
    ELSE IF ContextBlindSpot(bypass) THEN "context_blind_spot"
    ELSE IF SemanticMiss(bypass) THEN "semantic_miss"
    ELSE "pattern_gap"

\* largest number of fragments in a payload
MaxFragments == 2

\* patch.py:32: the bypasses that are diagnosed; the confidence of the
\* classifier response is absent, null, a string or a number
FailureInputs ==
    [classification : {"SAFE", "SUSPICIOUS", "MALICIOUS", Missing},
     confidence : {NoConf, NullConf, TextConf,
                   Dec(0), Dec(40), Dec(59), Dec(60), Dec(61), Dec(100)},
     category : {"sqli", "path_traversal", ""},
     payload : UNION {[1..n -> Fragments] : n \in 0..MaxFragments}]

\* ---------------------------------------------------------------------------
\* patch.py: _analyse_bypasses.  by_failure_mode is a dict: its keys are in
\* the order in which the modes first occur in the bypass list.
\* ---------------------------------------------------------------------------

\* patch.py:23-29: the keys of FAILURE_MODES in the order they are written
FailureModeOrder ==
    <<"pattern_gap", "encoding_evasion", "context_blind_spot", "semantic_miss",
      "confidence_underflow">>

\* patch.py:91-95: the keys of by_failure_mode after the loop
RECURSIVE ModeKeys(_, _)
ModeKeys(bypasses, keys) ==
    IF bypasses = <<>> THEN keys
    ELSE LET mode == classify_failure(Head(bypasses))
         IN  ModeKeys(Tail(bypasses),
                      IF \E i \in 1..Len(keys) : keys[i] = mode THEN keys
                      ELSE Append(keys, mode))

\* patch.py:95: len(by_failure_mode[mode])
GroupSize(bypasses, mode) ==
    Cardinality({i \in 1..Len(bypasses) : classify_failure(bypasses[i]) = mode})

\* patch.py:102: max(by_failure_mode, key=lambda k: len(by_failure_mode[k]))
\* returns the first key, in the order of the dict, with a largest group;
\* "unknown" for no bypass
dominant_failure(bypasses) ==
    IF bypasses = <<>> THEN "unknown"
    ELSE LET keys == ModeKeys(bypasses, <<>>)
             best == CHOOSE i \in 1..Len(keys) :
                        /\ \A j \in 1..Len(keys) :
                              GroupSize(bypasses, keys[j]) <= GroupSize(bypasses, keys[i])
                        /\ \A j \in 1..(i - 1) :
                              GroupSize(bypasses, keys[j]) < GroupSize(bypasses, keys[i])
         IN  keys[best]

\* longest bypass list that is analysed
MaxBypasses == 3

\* one bypass of every failure mode
ModeSamples ==
    {CHOOSE b \in FailureInputs : ~ClassifyRaises(b) /\ classify_failure(b) = m :
        m \in FAILURE_MODES}

\* patch.py:367: the bypass lists that are analysed
BypassLists == UNION {[1..n -> ModeSamples] : n \in 0..MaxBypasses}

\* ---------------------------------------------------------------------------
\* peek.py: _select_strategies and _apply_hint_override.  Of the recon brief
\* the generation counter and the number of recent bypasses are kept.
\* ---------------------------------------------------------------------------

\* peek.py:137-144
STRATEGIES ==
    <<"mutate_bypasses", "cross_category", "encoding_chains", "context_shift",
      "emerging_techniques", "target_weak_spots">>

\* strategy in strategies
InList(strategy, strategies) == \E i \in 1..Len(strategies) : strategies[i] = strategy

\* the recon brief of _recon (peek.py:349-374)
Recon(generation, recent) == [generation |-> generation, recent_bypasses |-> recent]

\* peek.py:387-388
Primary(recon) == STRATEGIES[(recon.generation % Len(STRATEGIES)) + 1]

\* the mutant: only the strategy chosen by rotation is used
select_strategies_primary_only(recon) == <<Primary(recon)>>

\* peek.py:384-396: _select_strategies
select_strategies(recon) ==
    IF recon.recent_bypasses > 0 /\ Primary(recon) # "mutate_bypasses"
    THEN <<Primary(recon), "mutate_bypasses">>
    ELSE <<Primary(recon)>>

\* peek.py:403-409 and 420: _FAILURE_STRATEGY_MAP.get(dominant); Missing is
\* None
FAILURE_STRATEGY_MAP(dominant) ==
    CASE dominant = "encoding_evasion" -> "encoding_chains"
      [] dominant = "context_blind_spot" -> "context_shift"
      [] dominant = "pattern_gap" -> "emerging_techniques"
      [] dominant = "semantic_miss" -> "cross_category"
      [] dominant = "confidence_underflow" -> "target_weak_spots"
      [] OTHER -> Missing

\* the mutant: the counter-strategy replaces the list
apply_hint_override_replace(strategies, hint, recon) ==
    IF hint = NoHint THEN strategies
    ELSE LET counter == FAILURE_STRATEGY_MAP(hint.dominant_failure_mode)
             countered == IF counter # Missing /\ ~InList(counter, strategies)
                          THEN <<counter>>
                          ELSE strategies
         IN  IF hint.still_bypassing_count > 0 /\ ~InList("mutate_bypasses", countered)
             THEN Append(countered, "mutate_bypasses")
             ELSE countered

\* peek.py:412-428: _apply_hint_override
apply_hint_override(strategies, hint, recon) ==
    IF hint = NoHint THEN strategies
    ELSE LET counter == FAILURE_STRATEGY_MAP(hint.dominant_failure_mode)
             countered == IF counter # Missing /\ ~InList(counter, strategies)
                          THEN <<counter>> \o SubSeq(strategies, 1, 1)
                          ELSE strategies
         IN  IF hint.still_bypassing_count > 0 /\ ~InList("mutate_bypasses", countered)
             THEN Append(countered, "mutate_bypasses")
             ELSE countered

\* peek.py:592-597: the strategies run uses, and the one the rotation chose
scout_strategies(recon, hint) ==
    [primary |-> select_strategies(recon)[1],
     strategies |-> IF hint # NoHint
                    THEN apply_hint_override(select_strategies(recon), hint, recon)
                    ELSE select_strategies(recon)]

\* largest generation counter
MaxGeneration == 7

\* largest number of recent bypasses in the recon brief
MaxRecent == 1

\* largest number of bypasses the previous cycle left unblocked
MaxStill == 1

\* peek.py:412: the hints _apply_hint_override is applied to: none, or one
\* with a failure mode of patch.py (or "unknown") and the ids still bypassing
ScoutHints ==
    {NoHint} \cup {Hint(mode, 1..n) : mode \in FAILURE_MODES \cup {"unknown"}, n \in 0..MaxStill}

\* main.py:164, 183 and 328: the hints a Scout run of the program is given.
\* _last_cycle_hint starts as None and is assigned only what
\* _build_cycle_hint returns for a cycle context; patch_rounds is [] in the
\* context _make_cycle_ctx makes and no statement of the source appends to it
CycleHints == {NoHint} \cup {BuildCycleHint(CycleCtx(id, NoHint)) : id \in 1..MaxCycles}

\* peek.py:590-597: recon brief and hint of a Scout run
StrategyInputs ==
    [recon : {Recon(g, r) : g \in 0..MaxGeneration, r \in 0..MaxRecent}, hint : ScoutHints]

\* ---------------------------------------------------------------------------
\* patch.py: run, up to its first statement on the database
\* ---------------------------------------------------------------------------

\* patch.py:352-359: run returns for an empty list; for any other list its
\* next statement enters get_db, and no statement behind it (the analysis,
\* the heuristic path, the deployment) is executed.  With the result goes
\* the table rules as the call leaves it.
patch_run(bypasses, creds, rows) ==
    [out |-> IF bypasses = <<>> THEN <<AdaptResult(0, 0)>> ELSE EnterGetDb,
     rules |-> rows]

\* patch.py:352: the calls of patch.run: a bypass list, with or without the
\* credentials of the deep engine, on the table rules init_db leaves
PatchInputs == [bypasses : BypassLists, creds : BOOLEAN, rules : {<<SeedRule>>}]

\* ---------------------------------------------------------------------------
\* The specification of the functions: one function is applied to one input.
\* ---------------------------------------------------------------------------

Applied(name) == f_name = name /\ Len(f_out) = 1

FunFrame == UNCHANGED <<core_vars, rate_vars, tech_vars, f_name, f_in>>

\* peek.py:492 and 507: _normalise_payload is called
ApplyNormalise ==
    /\ f_name = "normalise_payload" /\ f_out = <<>>
    /\ f_out' = <<normalise_payload(f_in)>>
    /\ FunFrame

\* poke.py:213: _compute_bypass_score is called
ApplyScore ==
    /\ f_name = "compute_bypass_score" /\ f_out = <<>>
    /\ f_out' = IF ScoreRaises(f_in) THEN CallRaised("TypeError")
                ELSE <<compute_bypass_score(f_in)>>
    /\ FunFrame

\* patch.py:91: _classify_failure is called
ApplyClassifyFailure ==
    /\ f_name = "classify_failure" /\ f_out = <<>>
    /\ f_out' = IF ClassifyRaises(f_in) THEN CallRaised("TypeError")
                ELSE <<classify_failure(f_in)>>
    /\ FunFrame

\* patch.py:367: _analyse_bypasses is called; the dominant failure mode
ApplyAnalyseBypasses ==
    /\ f_name = "analyse_bypasses" /\ f_out = <<>>
    /\ f_out' = <<dominant_failure(f_in)>>
    /\ FunFrame

\* peek.py:592-597: _select_strategies and _apply_hint_override are called
ApplyStrategies ==
    /\ f_name = "scout_strategies" /\ f_out = <<>>
    /\ f_out' = <<scout_strategies(f_in.recon, f_in.hint)>>
    /\ FunFrame

\* crusoe_classifier.py:14: classify is called and the engine answers
ApplyCrusoe ==
    /\ f_name = "crusoe_classify" /\ f_out = <<>>
    /\ f_out' = <<crusoe_classify(f_in)>>
    /\ FunFrame

\* claude_classifier.py:13: classify is called and the engine answers
ApplyClaude ==
    /\ f_name = "claude_classify" /\ f_out = <<>>
    /\ f_out' = <<claude_classify(f_in)>>
    /\ FunFrame

\* patch.py:352: run is called
ApplyPatchRun ==
    /\ f_name = "patch_run" /\ f_out = <<>>
    /\ f_out' = <<patch_run(f_in.bypasses, f_in.creds, f_in.rules)>>
    /\ FunFrame

FunInit ==
    /\ CoreIdle /\ RateIdle /\ TechIdle
    /\ f_out = <<>>
    /\ \/ f_name = "normalise_payload" /\ f_in \in Payloads
       \/ f_name = "compute_bypass_score" /\ f_in \in ScoreInputs
       \/ f_name = "classify_failure" /\ f_in \in FailureInputs
       \/ f_name = "analyse_bypasses" /\ f_in \in BypassLists
       \/ f_name = "scout_strategies" /\ f_in \in StrategyInputs
       \/ f_name = "crusoe_classify" /\ f_in \in EngineResponses(CrusoeFailureKinds)
       \/ f_name = "claude_classify" /\ f_in \in EngineResponses(ClaudeFailureKinds)
       \/ f_name = "patch_run" /\ f_in \in PatchInputs

FunNext ==
    \/ ApplyNormalise
    \/ ApplyScore
    \/ ApplyClassifyFailure
    \/ ApplyAnalyseBypasses
    \/ ApplyStrategies
    \/ ApplyCrusoe
    \/ ApplyClaude
    \/ ApplyPatchRun

FunSpec == FunInit /\ [][FunNext]_vars

\* ---------------------------------------------------------------------------
\* Claims about the functions
\* ---------------------------------------------------------------------------

\* an engine failure as the specification wants it reported
Degraded(r) ==
    /\ ~r.raised
    /\ r.classification = "SUSPICIOUS"
    /\ r.confidence = Dec(50)
    /\ r.reason \in {"api_error", "parse_failed"}

\* C3: every failure of the fast or of the deep engine (network error,
\* non-200 status, unparsable body) becomes a SUSPICIOUS verdict at 0.5 with
\* a diagnostic reason, and no exception leaves the engine call.
C3_EngineFailureDegradesNeverThrows ==
    /\ (Applied("crusoe_classify") /\ f_in.kind \in CrusoeFailureKinds) =>
          Degraded(f_out[1])
    /\ (Applied("claude_classify") /\ f_in.kind \in ClaudeFailureKinds) =>
          Degraded(f_out[1])

\* C21: whenever Adapt is run on a non-empty bypass list without the
\* credentials of the rule-generation engine, it returns patched = the
\* number of bypasses and verified = 0, no exception leaves it, and it has
\* added one rule row whose version is the current version plus one and
\* whose two prompts are those of the current version.
C21_HeuristicPathOnGenerationFailure ==
    (Applied("patch_run") /\ f_in.bypasses # <<>> /\ ~has_claude(f_in.creds)) =>
        LET current == CHOOSE r \in CurrentRules(f_in.rules) : TRUE
            after == f_out[1].rules
        IN  /\ f_out[1].out = <<AdaptResult(Len(f_in.bypasses), 0)>>
            /\ Len(after) = Len(f_in.rules) + 1
            /\ after[Len(after)].version = current.version + 1
            /\ after[Len(after)].crusoe_prompt = current.crusoe_prompt
            /\ after[Len(after)].claude_prompt = current.claude_prompt

\* C16: normalising is idempotent: normalising the normal form of a payload
\* gives that normal form again, for every payload.
C16_NormaliseIdempotent ==
    Applied("normalise_payload") => normalise_payload(f_out[1]) = f_out[1]

\* C17: the danger score is severity_weight x (1 + (1 - confidence)), up to
\* the rounding of the floating-point operations; at a
\* fixed confidence a bypass of larger severity weight scores strictly
\* higher, and at a fixed severity one of larger confidence scores strictly
\* lower.
C17_ScoreMonotone ==
    Applied("compute_bypass_score") =>
        /\ f_out[1] - 10 * SEVERITY_WEIGHT(GetSeverity(f_in))
                          * (Dec(100) + (Dec(100) - GetScoreConfidence(f_in))) \in -1..1
        /\ \A r \in {q \in ScoreInputs : ~ScoreRaises(q)} :
              /\ (/\ GetScoreConfidence(r) = GetScoreConfidence(f_in)
                  /\ SEVERITY_WEIGHT(GetSeverity(r)) > SEVERITY_WEIGHT(GetSeverity(f_in)))
                     => compute_bypass_score(r) > f_out[1]
              /\ (/\ GetSeverity(r) = GetSeverity(f_in)
                  /\ GetScoreConfidence(r) > GetScoreConfidence(f_in))
                     => compute_bypass_score(r) < f_out[1]

\* C17 witness: a critical bypass at confidence 0.4 was scored 6.4.
C17_Witness ==
    /\ Applied("compute_bypass_score")
    /\ f_in.severity = "critical" /\ f_in.confidence = Dec(40)
    /\ f_out[1] = 10 * 4 * Dec(160)

\* C18: every bypass is diagnosed with exactly one of the five failure
\* modes, the first that matches in the order confidence_underflow,
\* encoding_evasion, context_blind_spot, semantic_miss, pattern_gap; a
\* MALICIOUS verdict with confidence at most 0.6 is always
\* confidence_underflow, whatever the payload and the category.
C18_FirstMatchingFailureMode ==
    Applied("classify_failure") =>
        LET mode == f_out[1]
            \* a verdict without a confidence counts as confidence 0.0
            malicious_low == f_in.classification = "MALICIOUS"
                                /\ (f_in.confidence = NoConf \/ f_in.confidence <= Dec(60))
            encoded == \E i \in 1..Len(f_in.payload) :
                           LowerFragment(f_in.payload[i]) \in {"%2527", "%c0", "/**/"}
            safe == f_in.classification \in {"SAFE", Missing}
            context == safe /\ \E i \in 1..Len(f_in.payload) :
                           LowerFragment(f_in.payload[i]) \in {"graphql", "upgrade:"}
            semantic == safe /\ f_in.category = "sqli"
        IN  /\ mode \in FAILURE_MODES
            /\ malicious_low <=> mode = "confidence_underflow"
            /\ (~malicious_low /\ encoded) <=> mode = "encoding_evasion"
            /\ (~malicious_low /\ ~encoded /\ context) <=> mode = "context_blind_spot"
            /\ (~malicious_low /\ ~encoded /\ ~context /\ semantic)
                   <=> mode = "semantic_miss"
            /\ (~malicious_low /\ ~encoded /\ ~context /\ ~semantic)
                   <=> mode = "pattern_gap"

\* C18 witness: a MALICIOUS verdict at confidence 0.4 on a payload with an
\* obfuscation marker and a context marker was diagnosed confidence_underflow.
C18_Witness ==
    /\ Applied("classify_failure")
    /\ f_in.classification = "MALICIOUS" /\ f_in.confidence = Dec(40)
    /\ f_in.payload = <<"%2527", "GraphQL">>
    /\ f_in.category = "sqli"
    /\ f_out[1] = "confidence_underflow"

\* the place of a failure mode in the taxonomy
ModeIndex(mode) == CHOOSE i \in 1..Len(FailureModeOrder) : FailureModeOrder[i] = mode

\* C28: for every non-empty bypass list the dominant failure mode has a group
\* of maximal size, and among the modes with a group of that size it is the
\* first in the order of the taxonomy, whatever the order of the bypasses.
C28_DominantIsLargestTaxonomyFirst ==
    (Applied("analyse_bypasses") /\ f_in # <<>>) =>
        LET dominant == f_out[1]
        IN  /\ dominant \in FAILURE_MODES
            /\ GroupSize(f_in, dominant) >= 1
            /\ \A m \in FAILURE_MODES :
                  /\ GroupSize(f_in, m) <= GroupSize(f_in, dominant)
                  /\ GroupSize(f_in, m) = GroupSize(f_in, dominant) =>
                        ModeIndex(dominant) <= ModeIndex(m)

\* C29: in every Scout run the strategy chosen by rotation is the one at
\* index generation mod 6 of the six strategies, and whenever the recon brief
\* holds at least one recent bypass, mutate_bypasses is among the strategies
\* Scout uses, for every hint a Scout run of the program is given.
C29_RotationAndMutateOnRecentBypass ==
    (Applied("scout_strategies") /\ f_in.hint \in CycleHints) =>
        /\ Len(STRATEGIES) = 6
        /\ f_out[1].primary = STRATEGIES[(f_in.recon.generation % 6) + 1]
        /\ f_in.recon.recent_bypasses >= 1 =>
              InList("mutate_bypasses", f_out[1].strategies)

\* C29 witness: at generation 7 the rotation chose cross_category, the recon
\* brief holds a recent bypass, and Scout uses cross_category and
\* mutate_bypasses.
C29_Witness ==
    /\ Applied("scout_strategies")
    /\ f_in.hint \in CycleHints
    /\ f_in.recon.generation = 7
    /\ f_in.recon.recent_bypasses = 1
    /\ f_out[1].primary = "cross_category"
    /\ f_out[1].strategies = <<"cross_category", "mutate_bypasses">>

\* the counter-strategy the specification names for a failure mode
CounterStrategy(mode) ==
    CASE mode = "confidence_underflow" -> "target_weak_spots"
      [] mode = "pattern_gap" -> "emerging_techniques"
      [] mode = "encoding_evasion" -> "encoding_chains"
      [] mode = "context_blind_spot" -> "context_shift"
      [] mode = "semantic_miss" -> "cross_category"

\* C30: when the hint carries one of the five failure modes, the strategy
\* list Scout uses starts with the counter-strategy mapped to the mode and
\* still holds the strategy chosen by rotation; when the hint reports a
\* still-bypassing count above zero, the list holds mutate_bypasses.
C30_HintPrependsCounterStrategy ==
    (Applied("scout_strategies") /\ f_in.hint # NoHint) =>
        /\ f_in.hint.dominant_failure_mode \in FAILURE_MODES =>
              /\ f_out[1].strategies[1] = CounterStrategy(f_in.hint.dominant_failure_mode)
              /\ InList(f_out[1].primary, f_out[1].strategies)
              /\ f_out[1].primary = STRATEGIES[(f_in.recon.generation % 6) + 1]
        /\ f_in.hint.still_bypassing_count > 0 =>
              InList("mutate_bypasses", f_out[1].strategies)

\* C30 witness: the rotation chose context_shift, the hint says
\* encoding_evasion with one technique still bypassing, and Scout uses
\* encoding_chains, context_shift and mutate_bypasses in this order.
C30_Witness ==
    /\ Applied("scout_strategies")
    /\ f_in.recon.generation % 6 = 3
    /\ f_in.hint = Hint("encoding_evasion", {1})
    /\ f_out[1].strategies = <<"encoding_chains", "context_shift", "mutate_bypasses">>

\* ===========================================================================
\* Part C: the rate limiter (main.py, RateLimiter and check_rate_limit).
\* Times are whole seconds of time.monotonic().
\* ===========================================================================

\* the last time of the clock in the model
MaxTime == 500

\* the clock advances in steps of this many seconds
TimeStep == 100

\* largest number of requests
MaxRequests == 5

\* main.py:125: request.client.host
IPs == {"10.0.0.1", "10.0.0.2"}

\* the buckets requests are made in; main.py:362-931 name auth, proxy,
\* classify, api and agents
Buckets == {"agents", "auth"}

\* the mutant: the key names the bucket only
Key_bucket_only(bucket, ip) == <<bucket, "unknown">>

\* main.py:126: key = f"{bucket}:{ip}"
Key(bucket, ip) == <<bucket, ip>>

Keys == {Key(b, ip) : b \in Buckets, ip \in IPs}

\* main.py:114-120 and 127: RATE_LIMITS.get(bucket, (60, 60))
RATE_LIMITS(bucket) ==
    CASE bucket = "classify" -> [limit |-> 30, window |-> 60]
      [] bucket = "proxy" -> [limit |-> 60, window |-> 60]
      [] bucket = "auth" -> [limit |-> 10, window |-> 60]
      [] bucket = "api" -> [limit |-> 60, window |-> 60]
      [] bucket = "agents" -> [limit |-> 3, window |-> 300]
      [] OTHER -> [limit |-> 60, window |-> 60]

\* main.py:104: [t for t in hits if t > cutoff]
Prune(hits, cutoff) == SelectSeq(hits, LAMBDA t : t > cutoff)

\* the mutant: one request more than max_requests is let through
is_allowed_one_more(hits_of, key, max_requests, window_seconds, now) ==
    LET hits == Prune(hits_of[key], now - window_seconds)
    IN  IF Len(hits) > max_requests
        THEN [hits |-> [hits_of EXCEPT ![key] = hits], allowed |-> FALSE]
        ELSE [hits |-> [hits_of EXCEPT ![key] = Append(hits, now)], allowed |-> TRUE]

\* the mutant: a rejected request is recorded as a hit too
is_allowed_counts_rejected(hits_of, key, max_requests, window_seconds, now) ==
    LET hits == Prune(hits_of[key], now - window_seconds)
    IN  [hits |-> [hits_of EXCEPT ![key] = Append(hits, now)],
         allowed |-> Len(hits) < max_requests]

\* main.py:99-108: RateLimiter.is_allowed: the new _hits and the value
\* returned
is_allowed(hits_of, key, max_requests, window_seconds, now) ==
    LET hits == Prune(hits_of[key], now - window_seconds)
    IN  IF Len(hits) >= max_requests
        THEN [hits |-> [hits_of EXCEPT ![key] = hits], allowed |-> FALSE]
        ELSE [hits |-> [hits_of EXCEPT ![key] = Append(hits, now)], allowed |-> TRUE]

\* main.py:129-133: the 429 response, and None when the request goes on
LimitResponse(key, at, limited, retry_after) ==
    [key |-> key, at |-> at, limited |-> limited, retry_after |-> retry_after]

\* main.py:123-134: check_rate_limit for a request of ip in bucket
CheckRateLimit(ip, bucket) ==
    LET key == Key(bucket, ip)
        lw == RATE_LIMITS(bucket)
        res == is_allowed(rl_hits, key, lw.limit, lw.window, rl_now)
    IN  /\ Len(rl_log) < MaxRequests
        /\ rl_hits' = res.hits
        /\ rl_log' = Append(rl_log, [key |-> key, at |-> rl_now, allowed |-> res.allowed,
                                     ip |-> ip, bucket |-> bucket])
        /\ rl_resp' = IF res.allowed
                      THEN <<LimitResponse(key, rl_now, FALSE, 0)>>
                      ELSE <<LimitResponse(key, rl_now, TRUE, lw.window)>>
        /\ UNCHANGED <<rl_now, core_vars, fun_vars, tech_vars>>

\* time.monotonic() moves on
Tick ==
    /\ rl_now + TimeStep <= MaxTime
    /\ rl_now' = rl_now + TimeStep
    /\ UNCHANGED <<rl_hits, rl_resp, rl_log, core_vars, fun_vars, tech_vars>>

\* main.py:96-97 and 111: rate_limiter = RateLimiter(); _hits is a
\* defaultdict, every key has the empty list
RateInit ==
    /\ CoreIdle /\ FunIdle /\ TechIdle
    /\ rl_now = 0
    /\ rl_hits = [k \in Keys |-> <<>>]
    /\ rl_resp = <<>>
    /\ rl_log = <<>>

RateNext ==
    \/ Tick
    \/ \E ip \in IPs, bucket \in Buckets : CheckRateLimit(ip, bucket)

RateSpec == RateInit /\ [][RateNext]_vars

\* the requests of key let through at a time in (from, to], among the first
\* n requests
AllowedIn(key, from, to, n) ==
    {i \in 1..n : /\ rl_log[i].key = key /\ rl_log[i].allowed
                  /\ rl_log[i].at > from /\ rl_log[i].at <= to}

\* C19: for every key with limit N and window W, a request arriving when
\* fewer than N requests of the key were let through in the W seconds before
\* it (the times t with now - W < t <= now) is let through; one arriving
\* when N were is rejected with retry-after W; and in no interval (a, a + W]
\* more than N requests of one key are let through (it is enough to look at
\* the intervals that end at a request).
C19_SlidingWindowLimit ==
    /\ Len(rl_resp) = 1 =>
          LET r == rl_resp[1]
              lw == RATE_LIMITS(r.key[1])
              n == Cardinality(AllowedIn(r.key, r.at - lw.window, r.at, Len(rl_log) - 1))
          IN  /\ n < lw.limit => ~r.limited /\ rl_log[Len(rl_log)].allowed
              /\ n >= lw.limit => r.limited /\ r.retry_after = lw.window
                                     /\ ~rl_log[Len(rl_log)].allowed
    /\ \A i \in 1..Len(rl_log) :
          LET key == rl_log[i].key
              a == rl_log[i].at - RATE_LIMITS(key[1]).window
          IN  Cardinality(AllowedIn(key, a, a + RATE_LIMITS(key[1]).window, Len(rl_log)))
                  <= RATE_LIMITS(key[1]).limit

\* C19 witness: a fourth agents request of one address within 300 seconds
\* was rejected with retry-after 300 after three were let through, and a
\* request of the other address was let through.
C19_Witness ==
    /\ Len(rl_resp) = 1
    /\ rl_resp[1] = LimitResponse(Key("agents", "10.0.0.1"), 200, TRUE, 300)
    /\ Cardinality(AllowedIn(Key("agents", "10.0.0.1"), 0 - 100, 200, Len(rl_log))) = 3
    /\ \E i \in 1..Len(rl_log) : rl_log[i].key = Key("agents", "10.0.0.2") /\ rl_log[i].allowed

\* the requests of ip in bucket let through at a time in (from, to], among
\* the first n requests
AllowedOf(ip, bucket, from, to, n) ==
    {i \in 1..n : /\ rl_log[i].ip = ip /\ rl_log[i].bucket = bucket
                  /\ rl_log[i].allowed
                  /\ rl_log[i].at > from /\ rl_log[i].at <= to}

\* C33: a request of one caller in one bucket, let through or rejected,
\* leaves the recorded hits of every other caller-and-bucket pair as they
\* were; and it is rejected only when that same caller had as many requests
\* let through in that same bucket within the window as the bucket's limit,
\* whatever the other callers and buckets have used.
C33_KeysIndependent ==
    [][ Len(rl_log') = Len(rl_log) + 1 =>
          LET req == rl_log'[Len(rl_log')]
              lw == RATE_LIMITS(req.bucket)
          IN  /\ \A ip \in IPs, bucket \in Buckets :
                    (ip # req.ip \/ bucket # req.bucket) =>
                        rl_hits'[Key(bucket, ip)] = rl_hits[Key(bucket, ip)]
              /\ ~req.allowed =>
                    Cardinality(AllowedOf(req.ip, req.bucket, req.at - lw.window,
                                          req.at, Len(rl_log))) >= lw.limit
      ]_vars

\* C33 witness: one address has used up its three agents requests and was
\* rejected; after that the other address was let through in agents and the
\* first address in auth.
C33_Witness ==
    /\ Len(rl_log) = 5
    /\ rl_log[4].ip = "10.0.0.1" /\ rl_log[4].bucket = "agents" /\ ~rl_log[4].allowed
    /\ rl_log[5].at = rl_log[4].at
    /\ rl_log[5].ip = "10.0.0.2" /\ rl_log[5].bucket = "agents" /\ rl_log[5].allowed
    /\ Len(rl_hits[Key("agents", "10.0.0.1")]) = 3
    /\ Len(rl_hits[Key("agents", "10.0.0.2")]) = 1

\* C39: a rejected request changes no recorded hits, those of its own key
\* included; and a request of a key that holds N recorded hits of which the
\* oldest is more than W seconds old is let through, however many requests
\* of the key were rejected since.
C39_RejectionsNotRecorded ==
    [][ Len(rl_log') = Len(rl_log) + 1 =>
          LET req == rl_log'[Len(rl_log')]
              lw == RATE_LIMITS(req.bucket)
              hits == rl_hits[req.key]
          IN  /\ ~req.allowed => rl_hits' = rl_hits
              /\ req.allowed => rl_hits'[req.key] = Append(Prune(hits, req.at - lw.window), req.at)
              /\ (Len(hits) = lw.limit /\ req.at - hits[1] > lw.window) => req.allowed
              /\ Len(rl_hits'[req.key]) <= lw.limit
      ]_vars

\* C39 witness: three agents requests of one address were let through at
\* time 0, a fourth was rejected, and at time 400, when the oldest hit is
\* more than 300 seconds old, the next one is let through.
C39_Witness ==
    /\ Len(rl_log) = 5
    /\ \A i \in 1..5 : rl_log[i].key = Key("agents", "10.0.0.1")
    /\ \A i \in 1..3 : rl_log[i].at = 0 /\ rl_log[i].allowed
    /\ ~rl_log[4].allowed
    /\ rl_log[5].at = 400 /\ rl_log[5].allowed
    /\ rl_hits[Key("agents", "10.0.0.1")] = <<400>>

\* ===========================================================================
\* Part D: the attack execution of the Red-Team (poke.py): _execute_attacks
\* is applied to a list of techniques, and _analyse_results to what it
\* returns (poke.py:314-317).  In the server process poke.run raises in
\* _select_targets (poke.py:37) before it reaches them.
\* ===========================================================================

\* poke.py:15
CONCURRENCY == 3

\* poke.py:96-148: what the POST of an attack call can end with: status 200
\* and a verdict, a status other than 200, an exception with a message, or
\* an exception whose str() is empty (httpx timeouts are)
AttackOutcomes == {"answered", "http_error", "exception", "timeout"}

\* poke.py:110, 138 and 148: the text under "error".  After status 200 the
\* call enters get_db inside its try block (poke.py:110); the TypeError is
\* caught at poke.py:141 and its text is the error.  Else the text is
\* f"HTTP {status}" or str(e).
ErrorText(outcome) ==
    CASE outcome = "answered" -> GetDbErrorText
      [] outcome = "http_error" -> "HTTP 500"
      [] outcome = "exception" -> "All connection attempts failed"
      [] OTHER -> ""

\* poke.py:132-149: the dict _attack_single returns: the error record, which
\* has no key confidence; the return of poke.py:117-130 is not reached
AttackResult(technique, outcome) ==
    [threat_id |-> technique.id, severity |-> technique.severity, blocked |-> FALSE,
     confidence |-> NoConf, error |-> ErrorText(outcome)]

\* a call that has not returned
NoAttackResult ==
    [threat_id |-> 0, severity |-> Missing, blocked |-> FALSE, confidence |-> NoConf,
     error |-> NoError]

\* poke.py:165: asyncio.gather(*tasks) returns when every call has resolved
AllResolved(tasks) == \A i \in 1..Len(tasks) : tasks[i] = "done"

\* the attack calls that hold the semaphore
InFlight(tasks) == {i \in 1..Len(tasks) : tasks[i] = "posting"}

\* the mutant: the semaphore lets every call in
SemaphoreFree_unbounded(sem) == TRUE

\* poke.py:87 and 158: asyncio.Semaphore(CONCURRENCY) lets a call in while
\* its counter is positive
SemaphoreFree(sem) == sem > 0

\* poke.py:152 and database.py:17-28: the lists of techniques
\* _execute_attacks is applied to, as rows of the table threats that have
\* not been tested (tested_at NULL, blocked 0); the id of a row is its place
TargetTables ==
    UNION { { [i \in 1..n |-> Threat(i, sev[i], NoTime, 0)] :
                sev \in [1..n -> {"medium", "critical"}] } : n \in 0..MaxTargets }

ExecFrame == UNCHANGED <<core_vars, fun_vars, rate_vars, threats>>

\* poke.py:152-165: _execute_attacks is called: an empty list is returned
\* for no targets; else one attack call per target is made and the function
\* is suspended in "await asyncio.gather(*tasks)" before any of the calls
\* has run: none holds the semaphore and no request has been sent
ExecStart ==
    /\ t_pc = "idle"
    /\ IF threats = <<>>
       THEN /\ t_pc' = "returned"
            /\ t_loc' = NoExecLocals
       ELSE /\ t_pc' = "gather"
            /\ t_loc' = ExecLocals(threats,
                                   [i \in 1..Len(threats) |-> "waiting"],
                                   [i \in 1..Len(threats) |-> NoAttackResult],
                                   <<>>)
    /\ ExecFrame

\* poke.py:87-96: attack call i passes "async with semaphore" and sends its
\* request, in a step of the event loop of its own.  The calls run in the
\* order gather started them and a release wakes the call that has waited
\* longest, so call i enters when no earlier call waits and the counter of
\* the semaphore is positive.
TaskEnter(i) ==
    /\ t_pc = "gather"
    /\ i \in 1..Len(t_loc.tasks)
    /\ t_loc.tasks[i] = "waiting"
    /\ \A j \in 1..(i - 1) : t_loc.tasks[j] # "waiting"
    /\ SemaphoreFree(CONCURRENCY - Cardinality(InFlight(t_loc.tasks)))
    /\ t_loc' = [t_loc EXCEPT !.tasks[i] = "posting"]
    /\ UNCHANGED t_pc
    /\ ExecFrame

\* poke.py:94-149: the request of attack call i ends.  Whatever it ends
\* with the call returns an error record: after status 200 the UPDATE of
\* the technique's row is not reached (get_db raises inside the try block),
\* and the other branches hold no UPDATE.  The call releases the semaphore;
\* a call that waits for it enters in a later step.
TaskRespond(i, outcome) ==
    /\ t_pc = "gather"
    /\ i \in 1..Len(t_loc.tasks)
    /\ t_loc.tasks[i] = "posting"
    /\ t_loc' = [t_loc EXCEPT
                    !.results[i] = AttackResult(t_loc.targets[i], outcome),
                    !.tasks[i] = "done"]
    /\ UNCHANGED t_pc
    /\ ExecFrame

\* poke.py:165-167: gather returns the results in the order of the targets
ExecReturn ==
    /\ t_pc = "gather"
    /\ AllResolved(t_loc.tasks)
    /\ t_pc' = "returned"
    /\ UNCHANGED t_loc
    /\ ExecFrame

\* poke.py:317: _analyse_results is applied to the results
AnalyseResults ==
    /\ t_pc = "returned"
    /\ t_pc' = "analysed"
    /\ t_loc' = [t_loc EXCEPT !.bypasses = analyse_results(t_loc.results)]
    /\ ExecFrame

ExecInit ==
    /\ CoreIdle /\ FunIdle /\ RateIdle
    /\ threats \in TargetTables
    /\ t_pc = "idle"
    /\ t_loc = NoExecLocals

ExecNext ==
    \/ ExecStart
    \/ \E i \in 1..MaxTargets : TaskEnter(i)
    \/ \E i \in 1..MaxTargets, outcome \in AttackOutcomes : TaskRespond(i, outcome)
    \/ ExecReturn
    \/ AnalyseResults

ExecSpec == ExecInit /\ [][ExecNext]_vars

\* an error record: the dict _attack_single returns without a verdict
IsErrorRecord(r) == r.error # NoError

\* C25: while Red-Team executes its attacks at most CONCURRENCY calls are in
\* flight; a call that resolves writes the result slot of its own technique
\* and leaves every other call and every other slot as it was (a call that
\* waited may be let in); a call that fails leaves an error record that is
\* not blocked; when execution finishes every target has exactly one result,
\* that of its own technique.
C25_BoundedIsolatedAttacks ==
    [][ t_pc = "gather" =>
          LET t == t_loc.tasks
              u == t_loc'.tasks
              r == t_loc.results
              s == t_loc'.results
          IN  /\ Cardinality(InFlight(t)) <= CONCURRENCY
              /\ t_pc' = "gather" =>
                    /\ Cardinality(InFlight(u)) <= CONCURRENCY
                    /\ \A i \in 1..Len(t) :
                          /\ t[i] = "done" => (u[i] = "done" /\ s[i] = r[i])
                          /\ t[i] = "waiting" => s[i] = NoAttackResult
                          /\ (t[i] = "posting" /\ u[i] = "done") =>
                                /\ s[i].threat_id = t_loc.targets[i].id
                                /\ IsErrorRecord(s[i]) /\ ~s[i].blocked
                                /\ \A j \in 1..Len(t) \ {i} :
                                      /\ s[j] = r[j]
                                      /\ u[j] = t[j] \/ (t[j] = "waiting" /\ u[j] = "posting")
                                /\ (InFlight(t) \ {i}) \subseteq InFlight(u)
              /\ t_pc' = "returned" =>
                    /\ Len(r) = Len(t_loc.targets)
                    /\ s = r
                    /\ \A i \in 1..Len(r) :
                          /\ r[i] # NoAttackResult
                          /\ r[i].threat_id = t_loc.targets[i].id
      ]_vars

\* C25 witness: of four attack calls the one that had to wait for the
\* semaphore failed with a status other than 200, another ended with an
\* exception, and execution has finished with four results, each of its own
\* technique.
C25_Witness ==
    /\ t_pc = "returned"
    /\ Len(t_loc.results) = MaxTargets
    /\ MaxTargets > CONCURRENCY
    /\ t_loc.results[MaxTargets].error = "HTTP 500"
    /\ t_loc.results[1].error = "All connection attempts failed"
    /\ \A i \in 1..MaxTargets :
          /\ IsErrorRecord(t_loc.results[i])
          /\ t_loc.results[i].threat_id = t_loc.targets[i].id

\* C26: once the attacks have been executed every technique tested, whether
\* its test ended blocked, bypassed or in an error record, has its test
\* timestamp set and its blocked flag equal to the outcome of the test.
C26_EveryCompletedTestRecorded ==
    t_pc \in {"returned", "analysed"} =>
        \A i \in 1..Len(t_loc.targets) :
            LET row == threats[t_loc.targets[i].id]
            IN  /\ row.id = t_loc.results[i].threat_id
                /\ row.tested_at # NoTime
                /\ row.blocked = (IF t_loc.results[i].blocked THEN 1 ELSE 0)

\* C27: the bypass list Red-Team returns holds exactly the results that
\* completed without error and were not blocked, each once, in
\* non-increasing order of danger score, so its first element is a bypass of
\* maximal danger.
C27_BypassesExactAndSorted ==
    t_pc = "analysed" =>
        LET bypasses == t_loc.bypasses
            results == t_loc.results
            good == {i \in 1..Len(results) :
                        ~IsErrorRecord(results[i]) /\ ~results[i].blocked}
        IN  /\ Len(bypasses) = Cardinality(good)
            /\ \A i \in good : \E k \in 1..Len(bypasses) : bypasses[k] = results[i]
            /\ \A k \in 1..Len(bypasses) :
                  ~IsErrorRecord(bypasses[k]) /\ ~bypasses[k].blocked
            /\ \A k, l \in 1..Len(bypasses) :
                  k < l => compute_bypass_score(bypasses[k])
                               >= compute_bypass_score(bypasses[l])

\* ===========================================================================
\* Part E: the server process of backend/main.py: the background driver
\* (agent_loop), the trigger endpoints and /v1/classify
\* ===========================================================================

\* the events of ws_manager.broadcast
AgentEvent(agent, status) == Event("agent", agent, status)
ErrorEvent == AgentEvent("system", "error")

Emit(p, event) == cycle_event' = [cycle_event EXCEPT ![p] = event]

Goto(p, to) == pc' = [pc EXCEPT ![p] = to]

\* Mutant of RaisedPc: the driver has no except clause and ends with the
\* exception.
RaisedPc_unhandled(p) == IF p = "driver" THEN "crashed" ELSE "r500"

\* main.py:315-331: agent_loop catches Exception; a trigger handler lets it
\* leave, and the request is answered with status 500
RaisedPc(p) == IF p = "driver" THEN "catch" ELSE "r500"

\* an exception leaves the agent and _run_closed_loop
Raise(p) ==
    /\ pc' = [pc EXCEPT ![p] = RaisedPc(p)]
    /\ ctx' = [ctx EXCEPT ![p] = NoCtx]

\* main.py:462-463: get_current_rules enters get_db with its first statement
get_current_rules == EnterGetDb

\* main.py:488-496: classify_request awaits get_current_rules with its first
\* statement, before Stage 0 and before either engine is looked at, whatever
\* the request and the configuration; main.py:497-576 is not reached
classify_request(h, key, creds) == get_current_rules

\* peek.py:560-567: peek.run enters get_db with its first statement on the
\* database, the SELECT of the first seed technique
peek_run(c) == EnterGetDb

\* peek.py:371-374: SELECT COUNT(*) FROM agent_log WHERE agent = 'peek' AND
\* action = 'scan'
ScanCount(log) ==
    Cardinality({i \in 1..Len(log) : log[i].agent = "peek" /\ log[i].action = "scan"})

\* the session cookie of a request to a trigger endpoint: none, one that
\* does not verify, one that does
Sessions == {"no_cookie", "bad_cookie", "signed"}

\* main.py:67-75 and 742-746: require_auth answers 401 without a cookie that
\* verifies; with one, get_current_user enters get_db (main.py:75), and the
\* request is answered with status 500
Authenticate(session) ==
    IF session \in {"no_cookie", "bad_cookie"} THEN "r401" ELSE RaisedPc("manual")

\* main.py:901, 913, 925: the three trigger endpoints
Triggers == {"peek", "poke", "cycle"}

\* main.py:721 and 126: the keys of the requests to /v1/classify
ClassifyKeys == {Key("classify", ip) : ip \in IPs}

\* main.py:337-340 and 163-165: lifespan has awaited init_db and created the
\* driver task, which has not run yet; no request has been made.  The
\* engines are configured by the environment.
Installed ==
    /\ crusoe_key \in CrusoeKeys
    /\ aws_creds \in BOOLEAN
    /\ c_calls = 0
    /\ c_hits = NoHits
    /\ c_status = "none"
    /\ verdict = NoVerdict
    /\ agent_running = FALSE
    /\ cycle_counter = 0
    /\ last_cycle_hint = NoHint
    /\ agent_log = <<>>
    /\ pc = [p \in Procs |-> IF p = "driver" THEN "boot" ELSE "idle"]
    /\ ctx = [p \in Procs |-> NoCtx]
    /\ cycle_event = [p \in Procs |-> NoEvent]
    /\ manual_runs = 0
    /\ FunIdle /\ TechIdle
    /\ rl_now = 0
    /\ rl_hits = [k \in ClassifyKeys |-> <<>>]
    /\ rl_resp = <<>>
    /\ rl_log = <<>>

\* the variables no step of the driver changes
DriverFrame ==
    UNCHANGED <<crusoe_key, aws_creds, call_vars, agent_log, last_cycle_hint, manual_runs,
                fun_vars, rate_vars, tech_vars>>

\* main.py:309-312: agent_loop starts: the flag is set and the start-up
\* sleep begins
DriverBoot ==
    /\ pc["driver"] = "boot"
    /\ agent_running' = TRUE
    /\ Goto("driver", "sleep")
    /\ UNCHANGED <<cycle_counter, ctx, cycle_event>>
    /\ DriverFrame

\* main.py:312, 334, 314: a sleep of the driver ends
DriverSleep ==
    /\ pc["driver"] = "sleep"
    /\ Goto("driver", "loop")
    /\ UNCHANGED <<agent_running, cycle_counter, ctx, cycle_event>>
    /\ DriverFrame

\* main.py:314-316, 169-185, 252: while agent_running: the cycle context is
\* made and the first message broadcast
DriverStartCycle ==
    /\ pc["driver"] = "loop"
    /\ agent_running
    /\ cycle_counter < MaxCycles
    /\ cycle_counter' = cycle_counter + 1
    /\ ctx' = [ctx EXCEPT !["driver"] = CycleCtx(cycle_counter + 1, last_cycle_hint)]
    /\ Emit("driver", AgentEvent("peek", "running"))
    /\ Goto("driver", "peek_seed")
    /\ UNCHANGED agent_running
    /\ DriverFrame

\* main.py:253 and peek.py:560-567: _run_closed_loop awaits peek.run, which
\* raises; the exception leaves _run_closed_loop (main.py:318)
PeekSeed(p) ==
    /\ pc[p] = "peek_seed"
    /\ Len(peek_run(ctx[p])) = 2
    /\ Raise(p)
    /\ UNCHANGED <<agent_running, cycle_counter, cycle_event>>
    /\ DriverFrame

\* main.py:330-331: the driver's except clause
DriverCatch ==
    /\ pc["driver"] = "catch"
    /\ Emit("driver", ErrorEvent)
    /\ Goto("driver", "sleep")
    /\ UNCHANGED <<agent_running, cycle_counter, ctx>>
    /\ DriverFrame

\* main.py:342-344: shutdown clears the flag and cancels the driver task,
\* which ends at the await it is suspended in
Shutdown ==
    /\ pc["driver"] # "cancelled"
    /\ agent_running' = FALSE
    /\ pc' = [pc EXCEPT !["driver"] = "cancelled"]
    /\ ctx' = [ctx EXCEPT !["driver"] = NoCtx]
    /\ UNCHANGED <<cycle_counter, cycle_event>>
    /\ DriverFrame

\* main.py:900-936: a POST to one of the trigger endpoints.  Each of the
\* three handlers awaits require_auth first, which answers 401 or raises;
\* the statements behind it (check_rate_limit, _make_cycle_ctx, the call of
\* the agent) are not reached.  The server takes requests once the start-up
\* is over, and the driver task, created in the start-up, has run to its
\* first await by then.
ManualTrigger(kind, session) ==
    /\ pc["driver"] # "boot"
    /\ manual_runs < MaxManual
    /\ manual_runs' = manual_runs + 1
    /\ Goto("manual", Authenticate(session))
    /\ UNCHANGED <<crusoe_key, aws_creds, call_vars, agent_running, cycle_counter,
                   last_cycle_hint, agent_log, ctx, cycle_event,
                   fun_vars, rate_vars, tech_vars>>

\* main.py:719-724 and 123-134: a POST to /v1/classify from ip with a
\* message the patterns match as h: 429 when the address is over its limit,
\* else classify_request is awaited; its exception leaves the handler and
\* the request is answered with status 500
ApiClassify(ip, h) ==
    LET lw == RATE_LIMITS("classify")
        res == is_allowed(rl_hits, Key("classify", ip), lw.limit, lw.window, rl_now)
        out == classify_request(h, crusoe_key, aws_creds)
    IN  /\ pc["driver"] # "boot"
        /\ c_calls < MaxCalls
        /\ c_calls' = c_calls + 1
        /\ c_hits' = h
        /\ rl_hits' = res.hits
        /\ IF ~res.allowed
           THEN c_status' = "r429" /\ verdict' = NoVerdict
           ELSE IF Len(out) = 2
                THEN c_status' = "r500" /\ verdict' = NoVerdict
                ELSE c_status' = "r200" /\ verdict' = out[1]
        /\ UNCHANGED <<crusoe_key, aws_creds, cycle_vars, fun_vars, rl_now, rl_resp, rl_log,
                       tech_vars>>

\* the steps of the driver task
DriverStep ==
    \/ DriverBoot
    \/ DriverSleep
    \/ DriverStartCycle
    \/ PeekSeed("driver")
    \/ DriverCatch

Next ==
    \/ DriverBoot
    \/ DriverSleep
    \/ DriverStartCycle
    \/ PeekSeed("driver")
    \/ DriverCatch
    \/ Shutdown
    \/ \E kind \in Triggers, session \in Sessions : ManualTrigger(kind, session)
    \/ \E ip \in IPs, h \in HitVectors : ApiClassify(ip, h)

Spec == Installed /\ [][Next]_vars

\* ---------------------------------------------------------------------------
\* The background driver alone, cycle after cycle
\* ---------------------------------------------------------------------------

FairNext ==
    \/ DriverBoot
    \/ DriverSleep
    \/ DriverStartCycle
    \/ PeekSeed("driver")
    \/ DriverCatch
    \/ Shutdown

\* the event loop resumes the driver once what it awaits has returned or
\* raised
CycleFairSpec == Installed /\ [][FairNext]_vars /\ WF_vars(DriverStep)

\* ---------------------------------------------------------------------------
\* Claims about the server process
\* ---------------------------------------------------------------------------

\* C5: when neither external engine is configured, a call of
\* classify_request returns a verdict whose classification, confidence,
\* attack type and classifier label are those of Stage 0, and blocked is
\* decided from them alone.
C5_NoEnginesVerdictIsStage0 ==
    (c_status \in {"r200", "r500"} /\ ~has_crusoe(crusoe_key) /\ ~has_claude(aws_creds)) =>
        LET local == regex_classify(c_hits)
        IN  /\ c_status = "r200"
            /\ verdict.classification = local.classification
            /\ verdict.confidence = local.confidence
            /\ verdict.attack_type = local.attack_type
            /\ verdict.classifier = "regex"
            /\ verdict.blocked = Blocked(local.classification, local.confidence)

\* the driver task has been cancelled (main.py:342-344)
ShuttingDown == pc["driver"] = "cancelled"

\* C10: an exception in a background cycle is caught: the driver emits the
\* error event and sleeps, and unless the application shuts down (or the
\* cycle numbers of the model are used up) every background cycle is
\* followed by the start of the next one.
C10_DriverSurvivesCycleFailure ==
    /\ (pc["driver"] = "catch")
          ~> ((pc["driver"] = "sleep" /\ cycle_event["driver"] = ErrorEvent) \/ ShuttingDown)
    /\ \A k \in 1..MaxCycles :
          (pc["driver"] = "peek_seed" /\ ctx["driver"].cycle_id = k)
              ~> \/ (pc["driver"] = "peek_seed" /\ ctx["driver"].cycle_id > k)
                 \/ ShuttingDown
                 \/ cycle_counter = MaxCycles

\* C10 witness: the driver is in its second cycle and no summary was
\* written: the first cycle ended with an exception.
C10_Witness ==
    /\ pc["driver"] = "peek_seed"
    /\ ctx["driver"].cycle_id = 2
    /\ cycle_event["driver"] = AgentEvent("peek", "running")
    /\ \A i \in 1..Len(agent_log) : agent_log[i].action # "cycle_summary"
    /\ agent_running

\* C34: every Scout run of the background driver appends exactly one scan
\* row to the activity log, so that the generation number the next run reads
\* is one more.
C34_OneScanRowPerRun ==
    [][ (pc["driver"] = "peek_seed" /\ pc'["driver"] \notin {"peek_seed", "cancelled"}) =>
            ScanCount(agent_log') = ScanCount(agent_log) + 1
      ]_vars

============================================================================
